---- MODULE Spec2Model ----
(***************************************************************************)
(* Generation lifecycle of test-assistant-be: the /generations routes      *)
(* (create, view, revise content, publish, delete) over the Generation     *)
(* collection.                                                             *)
(*                                                                         *)
(* A route handler runs between its awaits without interruption, so each   *)
(* handler is cut at its database calls: the step that reads the record    *)
(* (findById) and the step that writes it (save / findByIdAndDelete).      *)
(* Other requests may run between the two.                                 *)
(*                                                                         *)
(* save() of a loaded document sends the paths the handler modified:       *)
(* an assigned path is $set, an array push() is $push (appended to the     *)
(* array as stored at that moment), a path assigned its old value is not   *)
(* sent.  save() of a document whose record is gone throws.                *)
(***************************************************************************)
EXTENDS Integers, Sequences, FiniteSets, Bags, TLC

(***************************************************************************)
(* Bounds of the model.                                                    *)
(***************************************************************************)
MaxGens == 2        \* generations created, one operation at a time
MaxConcGens == 1    \* generations created, handlers interleaving
MaxReqs == 2        \* PUT and DELETE handlers between their read and their write
MaxVersion == 3     \* a revision is taken up while currentVersion is below this
MaxNow == 1         \* the clock stops here
MaxPage == 2        \* pages of the list asked for

(***************************************************************************)
(* Inputs.                                                                 *)
(***************************************************************************)
Users == {"ann@x", "bob@x"}
Creators == {"ann@x"}
Ids == 1..MaxGens

\* Strings that the code inspects character by character (trim, startsWith,
\* match, toUpperCase) are sequences of characters.
IssueKeys == {<<"T", "e", "-", "1">>}
\* a second issue of the same JIRA project, its key typed in another case
SameProjectKeys == {<<"t", "E", "-", "2">>}
ContentA == <<"#", "A">>
ContentB == <<"#", "B">>
Blank == <<" ">>
Empty == <<>>
ReviseInputs == {ContentA, ContentB, Blank, Empty}

\* What one call of the chat completion API can give: content, an empty
\* message, or a thrown error.
ApiOk(c) == [kind |-> "ok", content |-> c]
ApiThrow(m) == [kind |-> "throw", message |-> m]
ApiOutcomes == {ApiOk(ContentA), ApiThrow("rate limit")}

(***************************************************************************)
(* JavaScript values.                                                      *)
(***************************************************************************)
Undefined == "<undefined>"
None == <<>>
Some(v) == <<v>>

JsUndefined == [type |-> "undefined", val |-> Undefined]
JsNumber(n) == [type |-> "number", val |-> n]
JsString(s) == [type |-> "string", val |-> s]
\* a === b: no conversion, so a string never equals a number
StrictEquals(a, b) == a.type = b.type /\ a.val = b.val

Digit == <<"0", "1", "2", "3", "4", "5", "6", "7", "8", "9">>
RECURSIVE DecimalString(_)
DecimalString(n) ==
    IF n < 10 THEN Digit[n + 1] ELSE DecimalString(n \div 10) \o Digit[(n % 10) + 1]

\* a test of white space that knows no blank
IsSpace_NoBlank(ch) == ch \in {"\n", "\t"}

IsSpace(ch) == ch \in {" ", "\n", "\t"}
RECURSIVE TrimStart(_)
TrimStart(s) ==
    IF s # <<>> /\ IsSpace(Head(s)) THEN TrimStart(Tail(s)) ELSE s
RECURSIVE TrimEnd(_)
TrimEnd(s) ==
    IF s # <<>> /\ IsSpace(s[Len(s)]) THEN TrimEnd(SubSeq(s, 1, Len(s) - 1)) ELSE s
Trim(s) == TrimEnd(TrimStart(s))
StartsWith(s, ch) == s # <<>> /\ Head(s) = ch

\* a test that lets the empty string pass
Falsy_OnlyUndefined(v) == v.type = "undefined"

\* !v of a string or a missing value
Falsy(v) == v.type = "undefined" \/ (v.type = "string" /\ v.val = <<>>)

UpperCase == <<"A", "B", "C", "D", "E", "F", "G", "H", "I", "J", "K", "L", "M",
               "N", "O", "P", "Q", "R", "S", "T", "U", "V", "W", "X", "Y", "Z">>
LowerCase == <<"a", "b", "c", "d", "e", "f", "g", "h", "i", "j", "k", "l", "m",
               "n", "o", "p", "q", "r", "s", "t", "u", "v", "w", "x", "y", "z">>
IsLetter(ch) == \E i \in DOMAIN UpperCase : ch = UpperCase[i] \/ ch = LowerCase[i]
IsDigit(ch) == \E i \in DOMAIN Digit : ch = Digit[i]
ToUpperCase(s) ==
    [k \in DOMAIN s |->
        IF \E i \in DOMAIN LowerCase : s[k] = LowerCase[i]
        THEN UpperCase[CHOOSE i \in DOMAIN LowerCase : s[k] = LowerCase[i]]
        ELSE s[k]]

VARIABLES
    gens,      \* the Generation collection: id -> stored document, or NoGen
    projects,  \* the Project collection: projectKey -> stored document, or NoProject
    nextId,    \* ids handed out so far + 1 (an _id is never reused)
    creates,   \* POST /testcases handlers in flight: id -> their position
    registry,  \* the findOrCreateProject call each of them started
    reqs,      \* PUT/DELETE handlers between their read and their write (a bag)
    last,      \* the response the last step sent, NoResponse if it sent none
    api,       \* what the chat completion API held for the calls of the last step
    now,       \* the clock
    config     \* the environment the process was started in

vars == <<gens, projects, nextId, creates, registry, reqs, last, api, now, config>>

NoGen == [absent |-> TRUE]
NoProject == [absent |-> TRUE]
NoResponse == [op |-> "none"]

NoCreate == [pc |-> "none"]
NoTask == [pc |-> "none"]
Done == [pc |-> "done"]
InFlight == {"stats", "jira", "openai"}

\* JIRA_EMAIL / JIRA_API_TOKEN and OPENAI_API_KEY set or not
Configs == {[jira |-> TRUE, openai |-> TRUE],
            [jira |-> FALSE, openai |-> TRUE],
            [jira |-> TRUE, openai |-> FALSE]}
Response(op, actor, id, code, error, content) ==
    [op |-> op, actor |-> actor, id |-> id, code |-> code, error |-> error,
     content |-> content]

(***************************************************************************)
(* The Generation schema: a new document holds what the handler passes and *)
(* the schema's defaults (published false, currentVersion 1, versions []). *)
(* status has no default and is absent until the handler assigns it.       *)
(***************************************************************************)
StatusEnum == {"completed", "failed"}

NewGeneration(issueKey, email, project, mode, startedAt) ==
    [issueKey |-> issueKey,
     email |-> email,
     project |-> project,
     mode |-> mode,
     status |-> Undefined,
     startedAt |-> Some(startedAt),
     completedAt |-> None,
     markdown |-> None,
     error |-> Undefined,
     published |-> FALSE,
     publishedAt |-> None,
     publishedBy |-> Undefined,
     versions |-> <<>>,
     currentVersion |-> 1]

\* An entry of versions as the version schema stores it: versionNumber is
\* declared String, so the number pushed is cast to its decimal string;
\* updatedAt is not a path of the schema and is dropped, releaseDate
\* defaults to the time of the push.
VersionEntry(versionNumber, content, updatedBy, t) ==
    [versionNumber |-> JsString(DecimalString(versionNumber)),
     content |-> content,
     updatedBy |-> updatedBy,
     releaseDate |-> t]

(***************************************************************************)
(* save(): the update a modified document sends, and its effect on the     *)
(* stored record.                                                          *)
(***************************************************************************)
Delta(set, push) == [set |-> set, push |-> push]
NoDelta == Delta(<<>>, <<>>)

\* The paths an assignment marks modified: those whose value differs from
\* the value the document holds.
Modified(doc, assigned) ==
    LET changed == {f \in DOMAIN assigned : assigned[f] # doc[f]}
    IN IF changed = {} THEN <<>> ELSE [f \in changed |-> assigned[f]]

\* an update whose $push puts the new entries at the head of the array
ApplyDelta_PushesAtHead(stored, delta) ==
    [f \in DOMAIN stored |->
        IF f \in DOMAIN delta.set THEN delta.set[f]
        ELSE IF f = "versions" THEN delta.push \o stored[f]
        ELSE stored[f]]

ApplyDelta(stored, delta) ==
    [f \in DOMAIN stored |->
        IF f \in DOMAIN delta.set THEN delta.set[f]
        ELSE IF f = "versions" THEN stored[f] \o delta.push
        ELSE stored[f]]

Write(id, delta) == gens' = [gens EXCEPT ![id] = ApplyDelta(gens[id], delta)]

(***************************************************************************)
(* JiraService.getIssue: never throws, answers {success} or {success:      *)
(* false, error}.  http is what the JIRA request came to.                  *)
(***************************************************************************)
HttpOutcomes == {"200", "404"}

GetIssue(issueKey, http) ==
    CASE http = "200" -> [success |-> TRUE, error |-> Undefined]
      [] http = "401" -> [success |-> FALSE, error |-> "JIRA authentication failed"]
      [] http = "403" -> [success |-> FALSE, error |-> "JIRA access forbidden"]
      [] http = "404" -> [success |-> FALSE, error |-> "Issue not found"]
      [] http = "ENOTFOUND" -> [success |-> FALSE, error |-> "Cannot connect to JIRA"]
      [] OTHER -> [success |-> FALSE, error |-> "JIRA API error"]

(***************************************************************************)
(* OpenAIService.generateTestCases: the loop over retryCount.  outcomes[k] *)
(* is what the k-th call of the API would give.  The throw that follows    *)
(* the try/catch stands inside the loop body, so it ends the loop.  The     *)
(* outer catch logs and rethrows.                                          *)
(***************************************************************************)
maxRetries == 3

Attempt(outcome) ==
    IF outcome.kind = "throw" THEN outcome
    ELSE IF outcome.content = Empty THEN ApiThrow("Empty response from OpenAI")
    ELSE outcome

GenerateTestCases(outcomes, autoMode) ==
    LET retryCount == 0 IN
    IF autoMode
    THEN \* systemPrompt = AUTO_PROMPT, a name the module never defines
         ApiThrow("AUTO_PROMPT is not defined")
    ELSE IF retryCount < maxRetries
    THEN LET r == Attempt(outcomes[retryCount + 1]) IN
         IF r.kind = "ok" THEN r
         ELSE \* catch: lastError = error; retryCount++
              IF retryCount + 1 = maxRetries
              THEN r    \* throw error
              ELSE r    \* then, still in the loop body: throw lastError
    ELSE ApiOk(Undefined)

TitlePrefix == <<"#", "T">>
Filename(issueKey, id) == [issueKey |-> issueKey, id |-> id]

(***************************************************************************)
(* Projects.  extractProjectKey matches /^([A-Z][A-Z0-9]+)-/i: a letter,   *)
(* one or more letters and digits, a dash; the match in upper case, null    *)
(* without a match.                                                        *)
(***************************************************************************)
Null == [null |-> TRUE]

ExtractProjectKey(issueKey) ==
    IF Falsy(issueKey) \/ issueKey.type # "string" THEN Null
    ELSE LET s == issueKey.val
             IsWord(ch) == IsLetter(ch) \/ IsDigit(ch)
             n == CHOOSE k \in 0..Len(s) :
                      /\ \A i \in 1..k : IsWord(s[i])
                      /\ k < Len(s) => ~IsWord(s[k + 1])
         IN IF n >= 2 /\ IsLetter(s[1]) /\ n < Len(s) /\ s[n + 1] = "-"
            THEN JsString(ToUpperCase(SubSeq(s, 1, n)))
            ELSE Null

ProjectKeys ==
    {ExtractProjectKey(JsString(k)).val : k \in IssueKeys \cup SameProjectKeys}

NewProject(projectKey, createdBy, t) ==
    [projectKey |-> projectKey,
     createdBy |-> createdBy,
     firstGeneratedAt |-> t,
     lastGeneratedAt |-> t,
     totalGenerations |-> 0]

\* What the handler holds in `project`: findOrCreateProject is an async
\* function and the handler does not await it, so it holds the promise, and
\* the _id of a promise is undefined.
Promise == [promise |-> TRUE]
ProjectId(project) == IF project = Promise THEN None ELSE Some(project.projectKey)

\* Project.findById: no document has _id undefined
FindProjectById(pid) == IF pid = None THEN NoProject ELSE projects[pid[1]]
CountDocuments(pid) ==
    Cardinality({i \in Ids : gens[i] # NoGen /\ gens[i].project = pid})

\* The process ends: every handler in flight is gone without a response.
ProcessExit(id) ==
    /\ creates' = [i \in Ids |-> IF creates[i].pc \in InFlight THEN Done ELSE creates[i]]
    /\ registry' = [i \in Ids |-> IF registry[i] = NoTask THEN NoTask ELSE Done]
    /\ reqs' = EmptyBag
    /\ last' = [op |-> "exit", id |-> id]

\* The promise of findOrCreateProject settles.  Nothing handles its
\* rejection: the runtime, by its unhandled-rejections mode, ends the process
\* or only prints a warning.
Settled(id, error) == [op |-> "registry", id |-> id, error |-> error]

Fulfil(id) ==
    /\ registry' = [registry EXCEPT ![id] = Done]
    /\ last' = Settled(id, Undefined)
    /\ UNCHANGED <<creates, reqs>>

Reject(id, error) ==
    \E exits \in BOOLEAN :
        IF exits THEN ProcessExit(id)
        ELSE /\ registry' = [registry EXCEPT ![id] = Done]
             /\ last' = Settled(id, error)
             /\ UNCHANGED <<creates, reqs>>

\* findOrCreateProject up to Project.findOne and what it prepares to save
FindOrCreateProjectFind(id, dbOk) ==
    /\ registry[id].pc = "find"
    /\ UNCHANGED <<gens, projects, nextId, now, config>>
    /\ api' = <<>>
    /\ IF ~dbOk THEN Reject(id, "MongoNetworkError")
       ELSE LET normalizedKey == ToUpperCase(Trim(registry[id].projectKey))
            IN /\ registry' = [registry EXCEPT ![id] =
                      [pc |-> "save", projectKey |-> normalizedKey,
                       userEmail |-> registry[id].userEmail,
                       found |-> projects[normalizedKey] # NoProject,
                       t |-> now]]
               /\ last' = NoResponse
               /\ UNCHANGED <<creates, reqs>>

\* project.save() that writes the whole document prepared for an insert over
\* the one found
FindOrCreateProjectSave_Overwrites(id, dbOk) ==
    /\ registry[id].pc = "save"
    /\ UNCHANGED <<gens, nextId, now, config>>
    /\ api' = <<>>
    /\ LET task == registry[id]
           stored == projects[task.projectKey]
       IN IF ~dbOk
          THEN UNCHANGED projects /\ Reject(id, "MongoNetworkError")
          ELSE IF ~task.found /\ stored # NoProject
          THEN UNCHANGED projects /\ Reject(id, "E11000 duplicate key")
          ELSE /\ projects' = [projects EXCEPT ![task.projectKey] =
                       NewProject(task.projectKey, task.userEmail, task.t)]
               /\ Fulfil(id)

\* project.save(): an insert of the new project, refused by the unique index
\* when the key is stored by now, or the update of lastGeneratedAt
FindOrCreateProjectSave(id, dbOk) ==
    /\ registry[id].pc = "save"
    /\ UNCHANGED <<gens, nextId, now, config>>
    /\ api' = <<>>
    /\ LET task == registry[id]
           stored == projects[task.projectKey]
       IN IF ~dbOk
          THEN UNCHANGED projects /\ Reject(id, "MongoNetworkError")
          ELSE IF task.found
          THEN /\ projects' = [projects EXCEPT ![task.projectKey] =
                       IF stored = NoProject THEN stored
                       ELSE [stored EXCEPT !.lastGeneratedAt = task.t]]
               /\ IF stored = NoProject
                  THEN Reject(id, "DocumentNotFoundError") ELSE Fulfil(id)
          ELSE IF stored # NoProject
          THEN UNCHANGED projects /\ Reject(id, "E11000 duplicate key")
          ELSE /\ projects' = [projects EXCEPT ![task.projectKey] =
                       NewProject(task.projectKey, task.userEmail, task.t)]
               /\ Fulfil(id)

(***************************************************************************)
(* POST /testcases                                                         *)
(***************************************************************************)
CreateInputs == {JsString(k) : k \in IssueKeys} \cup {JsString(Empty), JsUndefined}

\* getJiraService() and the call of jira.getIssue
GetJiraService(cs, id, actor) ==
    IF config.jira
    THEN /\ creates' = [cs EXCEPT ![id].pc = "jira"]
         /\ last' = NoResponse
    ELSE /\ creates' = [cs EXCEPT ![id] = Done]
         /\ last' = Response("create", actor, id, 500,
                "JIRA_EMAIL and JIRA_API_TOKEN must be set in environment variables",
                None)

\* up to generation.save(): validation, the call of findOrCreateProject,
\* then the new record
CreateGeneration(G, actor, issueKey, autoMode) ==
    /\ UNCHANGED <<projects, reqs, now, config>>
    /\ api' = <<>>
    /\ IF Falsy(issueKey)
       THEN /\ last' = Response("create", actor, 0, 400, "issueKey is required", None)
            /\ UNCHANGED <<gens, nextId, creates, registry>>
       ELSE LET id == nextId
                projectKey == ExtractProjectKey(issueKey)
                project == IF projectKey # Null THEN Promise ELSE Null
                cs == [creates EXCEPT ![id] =
                          [pc |-> "stats", actor |-> actor, issueKey |-> issueKey.val,
                           autoMode |-> autoMode, project |-> project]]
            IN /\ id \in G
               /\ registry' = [registry EXCEPT ![id] =
                      IF projectKey # Null
                      THEN [pc |-> "find", projectKey |-> projectKey.val,
                            userEmail |-> actor]
                      ELSE Done]
               /\ gens' = [gens EXCEPT ![id] =
                      NewGeneration(issueKey.val, actor,
                          IF project # Null THEN ProjectId(project) ELSE None,
                          "manual", now)]
               /\ nextId' = nextId + 1
               /\ IF project # Null
                  THEN creates' = cs /\ last' = NoResponse
                  ELSE GetJiraService(cs, id, actor)

\* "Update project stats": Project.findById(project._id), the count and the
\* save when a project is found; then on to JIRA
RefreshProjectStats(id) ==
    /\ creates[id].pc = "stats"
    /\ UNCHANGED <<gens, nextId, registry, reqs, now, config>>
    /\ api' = <<>>
    /\ LET pid == ProjectId(creates[id].project)
           updatedProject == FindProjectById(pid)
       IN IF updatedProject # NoProject
          THEN projects' = [projects EXCEPT ![pid[1]].totalGenerations =
                                CountDocuments(pid)]
          ELSE UNCHANGED projects
    /\ GetJiraService(creates, id, creates[id].actor)

\* the assignments of a failure without the status
FailedFields_NoStatus(error, t) ==
    [error |-> error, completedAt |-> Some(t)]

\* what the handler assigns when JIRA or OpenAI failed
FailedFields(error, t) ==
    [status |-> "failed", error |-> error, completedAt |-> Some(t)]

\* the assignments of a completion without completedAt
CompletedFields_NoCompletedAt(issueKey, id, markdownContent, t) ==
    [status |-> "completed",
     markdown |-> Some([filename |-> Filename(issueKey, id),
                        content |-> markdownContent]),
     currentVersion |-> 1,
     versions |-> <<>>]

\* a completion that also stores the issue key in upper case
CompletedFields_NormalizesKey(issueKey, id, markdownContent, t) ==
    [status |-> "completed",
     completedAt |-> Some(t),
     issueKey |-> ToUpperCase(issueKey),
     markdown |-> Some([filename |-> Filename(issueKey, id),
                        content |-> markdownContent]),
     currentVersion |-> 1,
     versions |-> <<>>]

\* what the handler assigns under "Update generation document"
CompletedFields(issueKey, id, markdownContent, t) ==
    [status |-> "completed",
     completedAt |-> Some(t),
     markdown |-> Some([filename |-> Filename(issueKey, id),
                        content |-> markdownContent]),
     currentVersion |-> 1,
     versions |-> <<>>]

\* a save that inserts the handler's document when the record is gone
CreateSave_Upserts(id, set, code, error) ==
    /\ creates' = [creates EXCEPT ![id] = Done]
    /\ LET doc == NewGeneration(creates[id].issueKey, creates[id].actor,
                                None, "manual", now)
       IN gens' = [gens EXCEPT ![id] =
              ApplyDelta(IF gens[id] = NoGen THEN doc ELSE gens[id],
                         Delta(Modified(doc, set), <<>>))]
    /\ last' = Response("create", creates[id].actor, id, code, error, None)

\* generation.save() of the handler's document after it assigned `set`
CreateSave(id, set, code, error) ==
    /\ creates' = [creates EXCEPT ![id] = Done]
    /\ IF gens[id] = NoGen
       THEN /\ UNCHANGED gens
            /\ last' = Response("create", creates[id].actor, id, 500,
                                "DocumentNotFoundError", None)
       ELSE /\ LET doc == NewGeneration(creates[id].issueKey, creates[id].actor,
                                       None, "manual", now)
               IN Write(id, Delta(Modified(doc, set), <<>>))
            /\ last' = Response("create", creates[id].actor, id, code, error, None)

\* jira.getIssue answers
JiraReturns(id, http) ==
    /\ creates[id].pc = "jira"
    /\ UNCHANGED <<projects, nextId, registry, reqs, now, config>>
    /\ api' = <<>>
    /\ LET issueResult == GetIssue(creates[id].issueKey, http) IN
       IF ~issueResult.success
       THEN CreateSave(id, FailedFields(issueResult.error, now),
                       404, issueResult.error)
       ELSE /\ creates' = [creates EXCEPT ![id].pc = "openai"]
            /\ last' = NoResponse
            /\ UNCHANGED gens

\* getOpenAIService(), then openai.generateTestCases returns or throws
OpenAIReturns(id, outcomes) ==
    /\ creates[id].pc = "openai"
    /\ UNCHANGED <<projects, nextId, registry, reqs, now, config>>
    /\ api' = IF config.openai /\ ~creates[id].autoMode THEN outcomes ELSE <<>>
    /\ LET result ==
               IF ~config.openai
               THEN ApiThrow("OpenAI service not configured. Please set OPENAI_API_KEY in .env")
               ELSE GenerateTestCases(outcomes, creates[id].autoMode)
       IN
       IF result.kind = "throw"
       THEN CreateSave(id,
                FailedFields("OpenAI generation failed: " \o result.message, now),
                500, result.message)
       ELSE LET markdownContent ==
                    IF StartsWith(result.content, "#") THEN result.content
                    ELSE TitlePrefix \o result.content
            IN CreateSave(id,
                CompletedFields(creates[id].issueKey, id, markdownContent, now),
                200, Undefined)

(***************************************************************************)
(* POST /prelight                                                          *)
(***************************************************************************)
\* every way the JIRA request can end that getIssue tells apart
JiraOutcomes == {"200", "401", "403", "404", "500", "ENOTFOUND"}

\* the words of getIssue's error messages, for String.prototype.includes
Words(error) ==
    CASE error = "JIRA authentication failed" -> <<"JIRA", "authentication", "failed">>
      [] error = "JIRA access forbidden" -> <<"JIRA", "access", "forbidden">>
      [] error = "Issue not found" -> <<"Issue", "not", "found">>
      [] error = "Cannot connect to JIRA" -> <<"Cannot", "connect", "to", "JIRA">>
      [] OTHER -> <<"JIRA", "API", "error">>

Includes(error, phrase) ==
    \E i \in 0..(Len(Words(error)) - Len(phrase)) :
        SubSeq(Words(error), i + 1, i + Len(phrase)) = phrase

\* "Return appropriate status code based on error type"
PrelightStatus(error) ==
    IF Includes(error, <<"authentication">>) \/ Includes(error, <<"forbidden">>)
    THEN 403
    ELSE IF Includes(error, <<"not", "found">>) THEN 404
    ELSE 500

Prelight(actor, issueKey, http) ==
    /\ UNCHANGED <<gens, projects, nextId, creates, registry, reqs, now, config>>
    /\ api' = <<>>
    /\ last' =
         IF Falsy(issueKey)
         THEN Response("prelight", actor, 0, 400, "issueKey is required", None)
         ELSE IF ~config.jira
         THEN Response("prelight", actor, 0, 500,
                "JIRA_EMAIL and JIRA_API_TOKEN must be set in environment variables",
                None)
         ELSE LET issueResult == GetIssue(issueKey.val, http) IN
              IF ~issueResult.success
              THEN Response("prelight", actor, 0,
                            PrelightStatus(issueResult.error), issueResult.error, None)
              ELSE Response("prelight", actor, 0, 200, Undefined, None)

(***************************************************************************)
(* GET /:id/view and GET /:id/download                                     *)
(***************************************************************************)
\* the view check with the test of published left out of isPublishedAndCompleted
ViewResponse_IgnoresPublished(gen, actor, id) ==
    IF gen = NoGen
    THEN Response("view", actor, id, 404, "Generation not found!", None)
    ELSE LET isOwner == gen.email = actor
             isPublishedAndCompleted == gen.status = "completed"
         IN IF ~isOwner /\ ~isPublishedAndCompleted
            THEN Response("view", actor, id, 404, "Not found!", None)
            ELSE IF gen.status # "completed"
            THEN Response("view", actor, id, 400, "Generation not completed yet", None)
            ELSE Response("view", actor, id, 200, Undefined,
                          IF gen.markdown = None THEN Some(Empty)
                          ELSE Some(gen.markdown[1].content))

ViewResponse(gen, actor, id) ==
    IF gen = NoGen
    THEN Response("view", actor, id, 404, "Generation not found!", None)
    ELSE LET isOwner == gen.email = actor
             isPublishedAndCompleted == gen.published /\ gen.status = "completed"
         IN IF ~isOwner /\ ~isPublishedAndCompleted
            THEN Response("view", actor, id, 404, "Not found!", None)
            ELSE IF gen.status # "completed"
            THEN Response("view", actor, id, 400, "Generation not completed yet", None)
            ELSE Response("view", actor, id, 200, Undefined,
                          IF gen.markdown = None THEN Some(Empty)
                          ELSE Some(gen.markdown[1].content))

ViewGeneration(actor, id) ==
    /\ UNCHANGED <<gens, projects, nextId, creates, registry, reqs, now, config>>
    /\ api' = <<>>
    /\ last' = ViewResponse(gens[id], actor, id)

DownloadResponse(gen, actor, id) ==
    IF gen = NoGen
    THEN Response("download", actor, id, 404, "Not found", None)
    ELSE LET isOwner == gen.email = actor
             isPublishedAndCompleted == gen.published /\ gen.status = "completed"
         IN IF ~isOwner /\ ~isPublishedAndCompleted
            THEN Response("download", actor, id, 404, "Not found", None)
            ELSE IF gen.status # "completed"
            THEN Response("download", actor, id, 400, "Not completed", None)
            ELSE Response("download", actor, id, 200, Undefined,
                          IF gen.markdown = None THEN Some(Empty)
                          ELSE Some(gen.markdown[1].content))

DownloadGeneration(actor, id) ==
    /\ UNCHANGED <<gens, projects, nextId, creates, registry, reqs, now, config>>
    /\ api' = <<>>
    /\ last' = DownloadResponse(gens[id], actor, id)

(***************************************************************************)
(* PUT /:id/content                                                        *)
(***************************************************************************)
\* the ownership check with an exception for published generations
ReviseContentCheck_PublishedException(gen, actor, id, content) ==
    IF Trim(content) = Empty
    THEN Response("revise", actor, id, 400, "Content is required!", None)
    ELSE IF gen = NoGen \/ (gen.email # actor /\ ~gen.published)
    THEN Response("revise", actor, id, 404, "Generation not found!", None)
    ELSE IF gen.status # "completed"
    THEN Response("revise", actor, id, 400,
                  "Only completed generations can be updated!", None)
    ELSE NoResponse

\* validation, findById, the ownership and status checks: the response
\* that ends the request, NoResponse when the handler goes on
ReviseContentCheck(gen, actor, id, content) ==
    IF Trim(content) = Empty
    THEN Response("revise", actor, id, 400, "Content is required!", None)
    ELSE IF gen = NoGen \/ gen.email # actor
    THEN Response("revise", actor, id, 404, "Generation not found!", None)
    ELSE IF gen.status # "completed"
    THEN Response("revise", actor, id, 400,
                  "Only completed generations can be updated!", None)
    ELSE NoResponse

\* the versioning with the test of versionExists inverted: nothing is archived
ReviseContentDelta_NoArchive(gen, email, content, t) ==
    LET currentContent == IF gen.markdown = None THEN Empty ELSE gen.markdown[1].content
        currentVersionNumber == IF gen.currentVersion = 0 THEN 1 ELSE gen.currentVersion
        versionExists ==
            \E i \in DOMAIN gen.versions :
                StrictEquals(gen.versions[i].versionNumber, JsNumber(currentVersionNumber))
        newMarkdown == [gen.markdown[1] EXCEPT !.content = content]
    IN IF currentContent # Empty /\ currentContent # content
       THEN Delta([currentVersion |-> currentVersionNumber + 1,
                   markdown |-> Some(newMarkdown)],
                  IF versionExists
                  THEN <<VersionEntry(currentVersionNumber, currentContent, email, t)>>
                  ELSE <<>>)
       ELSE NoDelta

\* the versioning archiving the new content in place of the current one
ReviseContentDelta_ArchivesNew(gen, email, content, t) ==
    LET currentContent == IF gen.markdown = None THEN Empty ELSE gen.markdown[1].content
        currentVersionNumber == IF gen.currentVersion = 0 THEN 1 ELSE gen.currentVersion
        versionExists ==
            \E i \in DOMAIN gen.versions :
                StrictEquals(gen.versions[i].versionNumber, JsNumber(currentVersionNumber))
        newMarkdown == [gen.markdown[1] EXCEPT !.content = content]
    IN IF currentContent # Empty /\ currentContent # content
       THEN Delta([currentVersion |-> currentVersionNumber + 1,
                   markdown |-> Some(newMarkdown)],
                  IF ~versionExists
                  THEN <<VersionEntry(currentVersionNumber, content, email, t)>>
                  ELSE <<>>)
       ELSE NoDelta

\* the versioning without the test that the content differs
ReviseContentDelta_AlwaysArchives(gen, email, content, t) ==
    LET currentContent == IF gen.markdown = None THEN Empty ELSE gen.markdown[1].content
        currentVersionNumber == IF gen.currentVersion = 0 THEN 1 ELSE gen.currentVersion
        versionExists ==
            \E i \in DOMAIN gen.versions :
                StrictEquals(gen.versions[i].versionNumber, JsNumber(currentVersionNumber))
        newMarkdown == [gen.markdown[1] EXCEPT !.content = content]
    IN IF currentContent # Empty
       THEN Delta([currentVersion |-> currentVersionNumber + 1,
                   markdown |-> Some(newMarkdown)],
                  IF ~versionExists
                  THEN <<VersionEntry(currentVersionNumber, currentContent, email, t)>>
                  ELSE <<>>)
       ELSE NoDelta

\* What the handler does to the document it loaded, up to gen.save():
\* the update save() will send.
ReviseContentDelta(gen, email, content, t) ==
    LET currentContent == IF gen.markdown = None THEN Empty ELSE gen.markdown[1].content
        currentVersionNumber == IF gen.currentVersion = 0 THEN 1 ELSE gen.currentVersion
        versionExists ==
            \E i \in DOMAIN gen.versions :
                StrictEquals(gen.versions[i].versionNumber, JsNumber(currentVersionNumber))
        newMarkdown == [gen.markdown[1] EXCEPT !.content = content]
    IN IF currentContent # Empty /\ currentContent # content
       THEN Delta([currentVersion |-> currentVersionNumber + 1,
                   markdown |-> Some(newMarkdown)],
                  IF ~versionExists
                  THEN <<VersionEntry(currentVersionNumber, currentContent, email, t)>>
                  ELSE <<>>)
       ELSE NoDelta

ReviseContentRead(actor, id, content) ==
    /\ BagCardinality(reqs) < MaxReqs
    /\ UNCHANGED <<gens, projects, nextId, creates, registry, now, config>>
    /\ api' = <<>>
    /\ LET gen == gens[id]
           response == ReviseContentCheck(gen, actor, id, content)
       IN IF response # NoResponse
          THEN /\ last' = response
               /\ UNCHANGED reqs
          ELSE /\ gen.currentVersion < MaxVersion
               /\ reqs' = reqs (+) SetToBag({
                              [op |-> "revise", actor |-> actor, id |-> id,
                               content |-> content,
                               delta |-> ReviseContentDelta(gen, actor, content, now)]})
               /\ last' = NoResponse

\* gen.save() and the response
ReviseContentSave(r) ==
    /\ r.op = "revise"
    /\ reqs' = reqs (-) SetToBag({r})
    /\ UNCHANGED <<projects, nextId, creates, registry, now, config>>
    /\ api' = <<>>
    /\ IF gens[r.id] = NoGen /\ r.delta # NoDelta
       THEN /\ UNCHANGED gens
            /\ last' = Response("revise", r.actor, r.id, 500,
                                "DocumentNotFoundError", None)
       ELSE /\ IF gens[r.id] = NoGen THEN UNCHANGED gens ELSE Write(r.id, r.delta)
            /\ last' = Response("revise", r.actor, r.id, 200, Undefined,
                                Some(r.content))

(***************************************************************************)
(* PUT /:id/publish                                                        *)
(***************************************************************************)
JsBoolean(b) == [type |-> "boolean", val |-> b]
PublishInputs == {JsBoolean(TRUE), JsBoolean(FALSE), JsString("yes")}

\* the checks of publish without the test of status
SetPublishedCheck_IgnoresStatus(gen, actor, id, published) ==
    IF published.type # "boolean"
    THEN Response("publish", actor, id, 400, "Published status must be a boolean!", None)
    ELSE IF gen = NoGen \/ gen.email # actor
    THEN Response("publish", actor, id, 404, "Generation not found!", None)
    ELSE NoResponse

\* the checks of publish refusing only a generation without status
SetPublishedCheck_AllowsFailed(gen, actor, id, published) ==
    IF published.type # "boolean"
    THEN Response("publish", actor, id, 400, "Published status must be a boolean!", None)
    ELSE IF gen = NoGen \/ gen.email # actor
    THEN Response("publish", actor, id, 404, "Generation not found!", None)
    ELSE IF gen.status = Undefined
    THEN Response("publish", actor, id, 400,
                  "Only completed generations can be published!", None)
    ELSE NoResponse

SetPublishedCheck(gen, actor, id, published) ==
    IF published.type # "boolean"
    THEN Response("publish", actor, id, 400, "Published status must be a boolean!", None)
    ELSE IF gen = NoGen \/ gen.email # actor
    THEN Response("publish", actor, id, 404, "Generation not found!", None)
    ELSE IF gen.status # "completed"
    THEN Response("publish", actor, id, 400,
                  "Only completed generations can be published!", None)
    ELSE NoResponse

\* unpublishing that also takes the generation's status back
SetPublishedDelta_ResetsStatus(gen, email, published, t) ==
    Delta(Modified(gen,
            IF published
            THEN [published |-> TRUE, publishedAt |-> Some(t), publishedBy |-> email]
            ELSE [published |-> FALSE, publishedAt |-> None, publishedBy |-> Undefined,
                  status |-> Undefined]),
          <<>>)

\* publishing that also stamps the completion time
SetPublishedDelta_StampsCompletion(gen, email, published, t) ==
    Delta(Modified(gen,
            IF published
            THEN [published |-> TRUE, publishedAt |-> Some(t), publishedBy |-> email,
                  completedAt |-> Some(t)]
            ELSE [published |-> FALSE, publishedAt |-> None, publishedBy |-> Undefined]),
          <<>>)

\* a save that sends the content and the versions of the document as loaded
\* along with the publish fields
SetPublishedDelta_SendsDocument(gen, email, published, t) ==
    Delta([published |-> published,
           publishedAt |-> IF published THEN Some(t) ELSE None,
           publishedBy |-> IF published THEN email ELSE Undefined,
           markdown |-> gen.markdown,
           versions |-> gen.versions,
           currentVersion |-> gen.currentVersion],
          <<>>)

\* What the handler assigns to the document it loaded; save() sends the
\* paths whose value changed.
SetPublishedDelta(gen, email, published, t) ==
    Delta(Modified(gen,
            IF published
            THEN [published |-> TRUE, publishedAt |-> Some(t), publishedBy |-> email]
            ELSE [published |-> FALSE, publishedAt |-> None, publishedBy |-> Undefined]),
          <<>>)

SetPublishedRead(actor, id, published) ==
    /\ BagCardinality(reqs) < MaxReqs
    /\ UNCHANGED <<gens, projects, nextId, creates, registry, now, config>>
    /\ api' = <<>>
    /\ LET gen == gens[id]
           response == SetPublishedCheck(gen, actor, id, published)
       IN IF response # NoResponse
          THEN /\ last' = response
               /\ UNCHANGED reqs
          ELSE /\ reqs' = reqs (+) SetToBag({
                              [op |-> "publish", actor |-> actor, id |-> id,
                               delta |-> SetPublishedDelta(gen, actor, published.val, now)]})
               /\ last' = NoResponse

SetPublishedSave(r) ==
    /\ r.op = "publish"
    /\ reqs' = reqs (-) SetToBag({r})
    /\ UNCHANGED <<projects, nextId, creates, registry, now, config>>
    /\ api' = <<>>
    /\ IF gens[r.id] = NoGen /\ r.delta # NoDelta
       THEN /\ UNCHANGED gens
            /\ last' = Response("publish", r.actor, r.id, 500,
                                "DocumentNotFoundError", None)
       ELSE /\ IF gens[r.id] = NoGen THEN UNCHANGED gens ELSE Write(r.id, r.delta)
            /\ last' = Response("publish", r.actor, r.id, 200, Undefined, None)

(***************************************************************************)
(* DELETE /:id                                                             *)
(***************************************************************************)
\* the checks of delete refusing a published generation
DeleteCheck_BlocksPublished(gen, actor, id) ==
    IF gen = NoGen
    THEN Response("delete", actor, id, 404, "Generation not found", None)
    ELSE IF gen.email # actor \/ gen.published
    THEN Response("delete", actor, id, 403,
                  "You can only delete your own generations", None)
    ELSE NoResponse

DeleteCheck(gen, actor, id) ==
    IF gen = NoGen
    THEN Response("delete", actor, id, 404, "Generation not found", None)
    ELSE IF gen.email # actor
    THEN Response("delete", actor, id, 403,
                  "You can only delete your own generations", None)
    ELSE NoResponse

DeleteRead(actor, id) ==
    /\ BagCardinality(reqs) < MaxReqs
    /\ UNCHANGED <<gens, projects, nextId, creates, registry, now, config>>
    /\ api' = <<>>
    /\ LET response == DeleteCheck(gens[id], actor, id)
       IN IF response # NoResponse
          THEN /\ last' = response
               /\ UNCHANGED reqs
          ELSE /\ reqs' = reqs (+) SetToBag({[op |-> "delete", actor |-> actor, id |-> id]})
               /\ last' = NoResponse

\* a delete that answers but spares a published generation
DeleteApply_KeepsPublished(r) ==
    /\ r.op = "delete"
    /\ reqs' = reqs (-) SetToBag({r})
    /\ UNCHANGED <<projects, nextId, creates, registry, now, config>>
    /\ api' = <<>>
    /\ gens' = [gens EXCEPT ![r.id] =
                   IF gens[r.id] # NoGen /\ gens[r.id].published THEN @ ELSE NoGen]
    /\ last' = Response("delete", r.actor, r.id, 200, Undefined, None)

\* Generation.findByIdAndDelete: no error when the record is already gone
DeleteApply(r) ==
    /\ r.op = "delete"
    /\ reqs' = reqs (-) SetToBag({r})
    /\ UNCHANGED <<projects, nextId, creates, registry, now, config>>
    /\ api' = <<>>
    /\ gens' = [gens EXCEPT ![r.id] = NoGen]
    /\ last' = Response("delete", r.actor, r.id, 200, Undefined, None)

(***************************************************************************)
(* GET /                                                                   *)
(***************************************************************************)
\* req.query.filter: the three filter types, another word, or none
Mine == <<"m", "i", "n", "e">>
Published == <<"p", "u", "b", "l", "i", "s", "h", "e", "d">>
All == <<"a", "l", "l">>
FilterInputs == {JsString(Mine), JsString(Published), JsString(All),
                 JsString(<<"o", "t", "h", "e", "r">>), JsUndefined}

\* limit when the query names none, and the least limit
DefaultLimit == 10
Limits == {1, DefaultLimit}

\* a default query with an owner test that every document passes
ListFilter_AnyOwner(filterType, actor, gen) ==
    IF filterType = Mine THEN gen.email = actor
    ELSE IF filterType = Published
    THEN gen.published /\ gen.status = "completed"
    ELSE gen.email \in Users \/ (gen.published /\ gen.status = "completed")

\* the query built from the filter type, as a test of one document
ListFilter(filterType, actor, gen) ==
    IF filterType = Mine THEN gen.email = actor
    ELSE IF filterType = Published
    THEN gen.published /\ gen.status = "completed"
    ELSE gen.email = actor \/ (gen.published /\ gen.status = "completed")

\* sort({createdAt: -1}): records are created in the order of their ids
RECURSIVE NewestFirst(_)
NewestFirst(S) ==
    IF S = {} THEN <<>>
    ELSE LET newest == CHOOSE m \in S : \A x \in S : x <= m
         IN <<newest>> \o NewestFirst(S \ {newest})

\* page and limit are what Math.max and Math.min left of the query's numbers
ListGenerations(actor, query, page, limit) ==
    /\ UNCHANGED <<gens, projects, nextId, creates, registry, reqs, now, config>>
    /\ api' = <<>>
    /\ LET filterType == IF Falsy(query) THEN All ELSE query.val
           found == {id \in Ids : gens[id] # NoGen
                                   /\ ListFilter(filterType, actor, gens[id])}
           sorted == NewestFirst(found)
           skip == (page - 1) * limit
           total == Cardinality(found)
           last_ == IF skip + limit < total THEN skip + limit ELSE total
       IN last' = [op |-> "list", actor |-> actor, filter |-> filterType,
                   generations |-> SubSeq(sorted, skip + 1, last_),
                   total |-> total]

Tick ==
    /\ now < MaxNow
    /\ now' = now + 1
    /\ last' = NoResponse
    /\ api' = <<>>
    /\ UNCHANGED <<gens, projects, nextId, creates, registry, reqs, config>>

Init ==
    /\ gens = [id \in Ids |-> NoGen]
    /\ projects = [k \in ProjectKeys |-> NoProject]
    /\ nextId = 1
    /\ creates = [id \in Ids |-> NoCreate]
    /\ registry = [id \in Ids |-> NoTask]
    /\ reqs = EmptyBag
    /\ last = NoResponse
    /\ api = <<>>
    /\ now = 0
    /\ config \in Configs

(***************************************************************************)
(* Requests arrive in any order.  Step(G, post, other, Db) creates the     *)
(* generations with ids in G, takes up a POST /testcases when Arrives(post) *)
(* holds and any other request when Arrives(other) holds, and lets the     *)
(* calls of the project registry end as Db says (TRUE: the database        *)
(* answers, FALSE: the call fails).                                        *)
(***************************************************************************)
\* no handler is in flight
Quiet ==
    /\ \A id \in Ids : creates[id].pc \notin InFlight
    /\ \A id \in Ids : registry[id].pc \notin {"find", "save"}
    /\ reqs = EmptyBag

\* no PUT or DELETE handler is between its read and its write
NoWriter == reqs = EmptyBag

\* no call of findOrCreateProject is in flight
RegistryIdle == \A id \in Ids : registry[id].pc \notin {"find", "save"}

Arrives(when) ==
    CASE when = "any time" -> TRUE
      [] when = "quiet" -> Quiet
      [] when = "no writer" -> NoWriter
      [] when = "registry idle" -> RegistryIdle

Step(G, post, other, Db) ==
    \/ \E actor \in Creators, issueKey \in CreateInputs, autoMode \in BOOLEAN :
          Arrives(post) /\ CreateGeneration(G, actor, issueKey, autoMode)
    \/ \E id \in G, dbOk \in Db : FindOrCreateProjectFind(id, dbOk)
    \/ \E id \in G, dbOk \in Db : FindOrCreateProjectSave(id, dbOk)
    \/ \E id \in G : RefreshProjectStats(id)
    \/ \E id \in G, http \in HttpOutcomes : JiraReturns(id, http)
    \/ \E id \in G, outcomes \in [1..maxRetries -> ApiOutcomes] :
          OpenAIReturns(id, outcomes)
    \/ \E actor \in Users, id \in G :
          Arrives(other) /\ ViewGeneration(actor, id)
    \/ \E actor \in Users, id \in G :
          Arrives(other) /\ DownloadGeneration(actor, id)
    \/ \E actor \in Users, id \in G, content \in ReviseInputs :
          Arrives(other) /\ ReviseContentRead(actor, id, content)
    \/ \E r \in BagToSet(reqs) : ReviseContentSave(r)
    \/ \E actor \in Users, id \in G, published \in PublishInputs :
          Arrives(other) /\ SetPublishedRead(actor, id, published)
    \/ \E r \in BagToSet(reqs) : SetPublishedSave(r)
    \/ \E actor \in Users, id \in G :
          Arrives(other) /\ DeleteRead(actor, id)
    \/ \E r \in BagToSet(reqs) : DeleteApply(r)

\* handlers interleave at their awaits, the calls of the project registry
\* may fail, the clock advances
Next == Step(1..MaxConcGens, "any time", "any time", BOOLEAN) \/ Tick
Spec == Init /\ [][Next]_vars

\* one operation at a time, the database answers
NextSeq == Step(1..MaxGens, "quiet", "quiet", {TRUE})
SpecSeq == Init /\ [][NextSeq]_vars

\* one POST /testcases at a time, the other requests arrive while it waits
\* on JIRA or OpenAI, one PUT or DELETE at a time, the database answers
NextCreate == Step(1..MaxConcGens, "quiet", "no writer", {TRUE})
SpecCreate == Init /\ [][NextCreate]_vars

\* The calls of findOrCreateProject that POST /testcases requests of both
\* users make for issues of one JIRA project; the database answers.
RegistryStep(post) ==
    \/ \E actor \in Users, k \in IssueKeys \cup SameProjectKeys :
          Arrives(post) /\ CreateGeneration(1..MaxGens, actor, JsString(k), FALSE)
    \/ \E id \in 1..MaxGens : FindOrCreateProjectFind(id, TRUE)
    \/ \E id \in 1..MaxGens : FindOrCreateProjectSave(id, TRUE)

\* one call at a time, the clock advances
NextRegistry == RegistryStep("registry idle") \/ Tick
SpecRegistry == Init /\ [][NextRegistry]_vars

\* the calls run side by side
NextRace == RegistryStep("any time")
SpecRace == Init /\ [][NextRace]_vars

\* POST /prelight and POST /testcases, one request at a time, the JIRA
\* request ending in any of the ways getIssue tells apart
NextFetch ==
    \/ \E actor \in Creators, issueKey \in CreateInputs, http \in JiraOutcomes :
          Quiet /\ Prelight(actor, issueKey, http)
    \/ \E actor \in Creators, issueKey \in CreateInputs :
          Quiet /\ CreateGeneration(1..MaxGens, actor, issueKey, FALSE)
    \/ \E id \in 1..MaxGens : FindOrCreateProjectFind(id, TRUE)
    \/ \E id \in 1..MaxGens : FindOrCreateProjectSave(id, TRUE)
    \/ \E id \in 1..MaxGens : RefreshProjectStats(id)
    \/ \E id \in 1..MaxGens, http \in JiraOutcomes : JiraReturns(id, http)
    \/ \E id \in 1..MaxGens, outcomes \in [1..maxRetries -> ApiOutcomes] :
          OpenAIReturns(id, outcomes)
SpecFetch == Init /\ [][NextFetch]_vars

\* The life of a generation under its owner's requests, one request at a
\* time, the database answers, the clock advances between the requests.
NextClock ==
    \/ \E actor \in Creators, k \in IssueKeys :
          Quiet /\ CreateGeneration(1..MaxConcGens, actor, JsString(k), FALSE)
    \/ \E id \in 1..MaxConcGens : FindOrCreateProjectFind(id, TRUE)
    \/ \E id \in 1..MaxConcGens : FindOrCreateProjectSave(id, TRUE)
    \/ \E id \in 1..MaxConcGens : RefreshProjectStats(id)
    \/ \E id \in 1..MaxConcGens, http \in HttpOutcomes : JiraReturns(id, http)
    \/ \E id \in 1..MaxConcGens, outcomes \in [1..maxRetries -> ApiOutcomes] :
          OpenAIReturns(id, outcomes)
    \/ \E actor \in Creators, id \in 1..MaxConcGens, content \in ReviseInputs :
          Quiet /\ ReviseContentRead(actor, id, content)
    \/ \E r \in BagToSet(reqs) : ReviseContentSave(r)
    \/ \E actor \in Creators, id \in 1..MaxConcGens, published \in PublishInputs :
          Quiet /\ SetPublishedRead(actor, id, published)
    \/ \E r \in BagToSet(reqs) : SetPublishedSave(r)
    \/ Quiet /\ Tick
SpecClock == Init /\ [][NextClock]_vars

\* GET / by either user between the owner's creates, publishes and deletes,
\* one request at a time, the database answers
NextList ==
    \/ \E actor \in Creators, k \in IssueKeys :
          Quiet /\ CreateGeneration(1..MaxGens, actor, JsString(k), FALSE)
    \/ \E id \in 1..MaxGens : FindOrCreateProjectFind(id, TRUE)
    \/ \E id \in 1..MaxGens : FindOrCreateProjectSave(id, TRUE)
    \/ \E id \in 1..MaxGens : RefreshProjectStats(id)
    \/ \E id \in 1..MaxGens, http \in HttpOutcomes : JiraReturns(id, http)
    \/ \E id \in 1..MaxGens, outcomes \in [1..maxRetries -> ApiOutcomes] :
          OpenAIReturns(id, outcomes)
    \/ \E actor \in Creators, id \in 1..MaxGens, published \in PublishInputs :
          Quiet /\ SetPublishedRead(actor, id, published)
    \/ \E r \in BagToSet(reqs) : SetPublishedSave(r)
    \/ \E actor \in Creators, id \in 1..MaxGens :
          Quiet /\ DeleteRead(actor, id)
    \/ \E r \in BagToSet(reqs) : DeleteApply(r)
    \/ \E actor \in Users, query \in FilterInputs, page \in 1..MaxPage,
         limit \in Limits :
          ListGenerations(actor, query, page, limit)
SpecList == Init /\ [][NextList]_vars

\* no handler of this kind is between its read and its save
NoneInFlight(op) == \A r \in BagToSet(reqs) : r.op # op

\* The owner's PUT /:id/content and PUT /:id/publish on one generation, one
\* of each at a time, each arriving while the other is between its read and
\* its save; the database answers.
NextMix ==
    \/ \E actor \in Creators, k \in IssueKeys :
          Quiet /\ CreateGeneration(1..MaxConcGens, actor, JsString(k), FALSE)
    \/ \E id \in 1..MaxConcGens : FindOrCreateProjectFind(id, TRUE)
    \/ \E id \in 1..MaxConcGens : FindOrCreateProjectSave(id, TRUE)
    \/ \E id \in 1..MaxConcGens : RefreshProjectStats(id)
    \/ \E id \in 1..MaxConcGens, http \in HttpOutcomes : JiraReturns(id, http)
    \/ \E id \in 1..MaxConcGens, outcomes \in [1..maxRetries -> ApiOutcomes] :
          OpenAIReturns(id, outcomes)
    \/ \E actor \in Creators, id \in 1..MaxConcGens, content \in ReviseInputs :
          NoneInFlight("revise") /\ ReviseContentRead(actor, id, content)
    \/ \E r \in BagToSet(reqs) : ReviseContentSave(r)
    \/ \E actor \in Creators, id \in 1..MaxConcGens, published \in PublishInputs :
          NoneInFlight("publish") /\ SetPublishedRead(actor, id, published)
    \/ \E r \in BagToSet(reqs) : SetPublishedSave(r)
SpecMix == Init /\ [][NextMix]_vars

(***************************************************************************)
(* Properties.                                                             *)
(***************************************************************************)
Exists(id) == gens[id] # NoGen
Content(gen) == gen.markdown[1].content
ParseInt(str) == CHOOSE n \in 0..20 : DecimalString(n) = str
VersionNumbers(gen) ==
    {ParseInt(gen.versions[i].versionNumber.val) : i \in DOMAIN gen.versions}
MaxOf(S) == IF S = {} THEN 0 ELSE CHOOSE m \in S : \A x \in S : x <= m
ChangingOps == {"revise", "publish", "delete"}

\* C1: once a generation's status is completed or failed, no step changes
\* it, whatever operations follow (revise, publish, view, download, a
\* further create for the same issue key).
C1_StatusIsTerminal ==
    [][\A id \in Ids :
          (Exists(id) /\ gens[id].status \in {"completed", "failed"} /\ gens'[id] # NoGen)
              => gens'[id].status = gens[id].status]_vars

\* a failed generation followed by a second one for the same issue key that
\* completed, was revised and published
C1_Witness ==
    /\ Exists(1) /\ gens[1].status = "failed"
    /\ Exists(2) /\ gens[2].issueKey = gens[1].issueKey
    /\ gens[2].status = "completed" /\ gens[2].currentVersion = 2 /\ gens[2].published

\* C2: every stored generation has status pending, completed or failed, and
\* the record Create persisted, while its external call has not returned,
\* has status pending and startedAt set.
C2_StatusInDomain ==
    \A id \in Ids :
        Exists(id) =>
            /\ gens[id].status \in {"pending", "completed", "failed"}
            /\ creates[id].pc \in InFlight =>
                   gens[id].status = "pending" /\ gens[id].startedAt # None

\* C3: with the operations one at a time, every completed generation has
\* currentVersion = (largest archived version number, 0 if none) + 1.
C3_CurrentVersionAboveArchive ==
    \A id \in Ids :
        (Exists(id) /\ gens[id].status = "completed")
            => gens[id].currentVersion = MaxOf(VersionNumbers(gens[id])) + 1

C3_Witness ==
    \E id \in Ids :
        /\ Exists(id) /\ gens[id].status = "completed"
        /\ gens[id].currentVersion = 3 /\ Len(gens[id].versions) = 2

\* C4: versions never holds two entries with the same version number, also
\* when revisions of one generation interleave between read and save.
C4_NoDuplicateVersionNumbers ==
    \A id \in Ids :
        Exists(id) =>
            \A i, j \in DOMAIN gens[id].versions :
                i # j => gens[id].versions[i].versionNumber
                            # gens[id].versions[j].versionNumber

\* C5: the stored currentVersion never decreases, also when revisions of
\* one generation interleave between read and save.
C5_CurrentVersionNeverDecreases ==
    [][\A id \in Ids :
          (Exists(id) /\ gens'[id] # NoGen)
              => gens'[id].currentVersion >= gens[id].currentVersion]_vars

\* C6: with the operations one at a time, a revision by the owner of a
\* completed generation with content that differs from the current content
\* appends exactly one entry to versions, holding the prior content under
\* the prior currentVersion, raises currentVersion by one and stores the
\* new content.
C6_ReviseArchivesPrior ==
    [][\A id \in Ids :
          (/\ Exists(id) /\ gens[id].status = "completed"
           /\ last'.op = "revise" /\ last'.code = 200 /\ last'.id = id
           /\ last'.actor = gens[id].email
           /\ Content(gens[id]) # last'.content[1])
          => LET g == gens[id]
                 h == gens'[id]
                 n == Len(g.versions)
             IN /\ h # NoGen
                /\ Len(h.versions) = n + 1
                /\ SubSeq(h.versions, 1, n) = g.versions
                /\ h.versions[n + 1].content = Content(g)
                /\ ParseInt(h.versions[n + 1].versionNumber.val) = g.currentVersion
                /\ h.currentVersion = g.currentVersion + 1
                /\ Content(h) = last'.content[1]]_vars

\* content A at version 1 revised to B: versions = [{1, A}], currentVersion 2
C6_Witness ==
    /\ last.op = "revise" /\ last.code = 200 /\ last.content = Some(ContentB)
    /\ Exists(last.id)
    /\ gens[last.id].currentVersion = 2
    /\ Len(gens[last.id].versions) = 1
    /\ gens[last.id].versions[1].content = ContentA
    /\ ParseInt(gens[last.id].versions[1].versionNumber.val) = 1
    /\ Content(gens[last.id]) = ContentB

\* C7: a revision whose content is identical to the current content leaves
\* the record, so currentVersion and versions, as it was.
C7_SameContentIsNoOp ==
    [][\A id \in Ids :
          (/\ Exists(id) /\ gens[id].status = "completed"
           /\ last'.op = "revise" /\ last'.code = 200 /\ last'.id = id
           /\ Content(gens[id]) = last'.content[1])
          => gens'[id] = gens[id]]_vars

\* a revision answered 200 on a generation still at version 1 with nothing archived
C7_Witness ==
    /\ last.op = "revise" /\ last.code = 200
    /\ Exists(last.id)
    /\ Content(gens[last.id]) = last.content[1]
    /\ gens[last.id].currentVersion = 1
    /\ gens[last.id].versions = <<>>

\* C8 as stated: the owner can always view, a non-owner can view iff the
\* generation is published and completed, every other case is "not found".
C8_OwnerAlwaysViews ==
    (last.op \in {"view", "download"} /\ Exists(last.id)) =>
        LET gen == gens[last.id]
            isOwner == gen.email = last.actor
        IN /\ isOwner => last.code = 200
           /\ ~isOwner => (last.code = 200 <=> (gen.published /\ gen.status = "completed"))
           /\ last.code # 200 => last.code = 404

\* C8 amended: the owner can view iff the generation is completed, whatever
\* published is; a non-owner can view iff it is published and completed; the
\* owner of a generation that is not completed gets a 400; every other case
\* (a non-owner without access, no such generation) is "not found".
C8_ViewAccess ==
    last.op \in {"view", "download"} =>
        LET gen == gens[last.id] IN
        IF gen = NoGen THEN last.code = 404
        ELSE LET isOwner == gen.email = last.actor
                 completed == gen.status = "completed"
             IN /\ last.code = 200 <=> (completed /\ (isOwner \/ gen.published))
                /\ (isOwner /\ ~completed) => last.code = 400
                /\ (~isOwner /\ ~(gen.published /\ completed)) => last.code = 404
                /\ last.code = 200 => last.content = Some(Content(gen))

\* a non-owner was shown a published generation
C8_Witness ==
    /\ last.op = "view" /\ last.code = 200
    /\ Exists(last.id)
    /\ gens[last.id].email # last.actor
    /\ gens[last.id].published

\* C9: for view, revise, publish and delete, the response to a request that
\* is denied on an existing generation is the response the same request gets
\* when no generation has that id.
AbsentResponse(op, actor, id) ==
    CASE op = "view" -> ViewResponse(NoGen, actor, id)
      [] op = "revise" -> ReviseContentCheck(NoGen, actor, id, ContentA)
      [] op = "publish" -> SetPublishedCheck(NoGen, actor, id, JsBoolean(TRUE))
      [] op = "delete" -> DeleteCheck(NoGen, actor, id)

C9_NoExistenceLeak ==
    (/\ last.op \in {"view", "revise", "publish", "delete"}
     /\ Exists(last.id)
     /\ gens[last.id].email # last.actor
     /\ last.code \in {403, 404})
        => last = AbsentResponse(last.op, last.actor, last.id)

\* C10: a record changes (content, versions, currentVersion, published
\* fields, existence) only by a request of its owner; a revise, publish or
\* delete request by anyone else is refused and changes nothing.
C10_OnlyOwnerTakesEffect ==
    [][\A id \in Ids :
          Exists(id) =>
              /\ gens'[id] # gens[id] =>
                     /\ last'.op \in ChangingOps \cup {"create"}
                     /\ last'.id = id
                     /\ last'.actor = gens[id].email
              /\ (last'.op \in ChangingOps /\ last'.id = id
                      /\ last'.actor # gens[id].email) =>
                     /\ last'.code \in {400, 403, 404}
                     /\ gens' = gens
                     /\ reqs' = reqs]_vars

\* a non-owner's revision of a published generation was refused
C10_Witness ==
    /\ last.op = "revise" /\ last.code = 404
    /\ Exists(last.id)
    /\ gens[last.id].email # last.actor
    /\ gens[last.id].published

\* C11: in every reachable state publishedAt and publishedBy are both
\* present exactly when published is true.
C11_StampsIffPublished ==
    \A id \in Ids :
        Exists(id) =>
            /\ gens[id].published <=> gens[id].publishedAt # None
            /\ gens[id].published <=> gens[id].publishedBy # Undefined

\* C12: a delete answered 200 has removed the record; a removed record
\* stays removed, and every later view of its id, by the owner or by anyone
\* else, is answered "not found".
Deleted(id) == id < nextId /\ ~Exists(id)

C12_DeletedStaysNotFound ==
    [][/\ (last'.op = "delete" /\ last'.code = 200) => gens'[last'.id] = NoGen
       /\ \A id \in Ids :
            Deleted(id) =>
                /\ gens'[id] = NoGen
                /\ (last'.op = "view" /\ last'.id = id) =>
                       /\ last'.code = 404
                       /\ last'.content = None]_vars

\* the owner asked to view a generation that was deleted
C12_Witness ==
    /\ last.op = "view" /\ last.code = 404
    /\ Deleted(last.id)
    /\ last.actor \in Creators

\* C13: with the operations one at a time, a create whose issue fetch and
\* content generation succeeded is answered 200 and leaves its record with
\* status completed, completedAt set, the generated content (under a title
\* when it has none) and a filename in result, currentVersion 1 and no
\* versions.
Generated(outcomes) == GenerateTestCases(outcomes, FALSE)

C13_CreateCompletes ==
    (/\ last.op = "create"
     /\ \/ last.code = 200
        \/ api # <<>> /\ Generated(api).kind = "ok")
        => /\ last.code = 200
           /\ Exists(last.id)
           /\ api # <<>> /\ Generated(api).kind = "ok"
           /\ LET g == gens[last.id]
                  c == Generated(api).content
              IN /\ g.status = "completed"
                 /\ g.completedAt # None
                 /\ g.markdown # None
                 /\ Content(g) = IF StartsWith(c, "#") THEN c ELSE TitlePrefix \o c
                 /\ g.markdown[1].filename = Filename(g.issueKey, last.id)
                 /\ g.currentVersion = 1
                 /\ g.versions = <<>>

\* a second create for the same issue key has just completed
C13_Witness ==
    /\ last.op = "create" /\ last.code = 200 /\ last.id = 2
    /\ Exists(1) /\ Exists(2)
    /\ gens[2].status = "completed"

\* C14: the content generator is called again after a failed call, up to
\* maxRetries calls: the generation completes when any of them succeeds, and
\* fails only when all have failed, with the message of the last one in error.
C14_RetriesUpToThree ==
    (last.op = "create" /\ api # <<>> /\ Exists(last.id)) =>
        LET g == gens[last.id]
            Ok(k) == Attempt(api[k]).kind = "ok"
        IN /\ g.status = "completed" <=> \E k \in 1..maxRetries : Ok(k)
           /\ g.status = "failed" =>
                  /\ \A k \in 1..maxRetries : ~Ok(k)
                  /\ g.error = "OpenAI generation failed: "
                                   \o Attempt(api[maxRetries]).message

\* C15: a create that persisted its record and ran to its response leaves
\* the record completed or failed, never pending; a failed record has error
\* and completedAt set.
C15_CreateEndsTerminal ==
    (last.op = "create" /\ last.id \in Ids /\ Exists(last.id)) =>
        LET g == gens[last.id]
        IN /\ g.status \in {"completed", "failed"}
           /\ g.status = "failed" => (g.error # Undefined /\ g.completedAt # None)

\* C16: a view, download, revise or publish request on a generation whose
\* status is not completed is refused, whoever sends it: it is answered 400
\* or 404 without content, the record stays as it was and nothing is left
\* to write.  So a revision that arrives while the create waits on JIRA or
\* OpenAI is refused.
C16_NotCompletedIsRefused ==
    [][\A id \in Ids :
          (/\ Exists(id) /\ gens[id].status # "completed"
           /\ last'.op \in {"view", "download", "revise", "publish"}
           /\ last'.id = id)
          => /\ last'.code \in {400, 404}
             /\ last'.content = None
             /\ gens'[id] = gens[id]
             /\ reqs' = reqs]_vars

\* the owner's revision was refused while the create waited on OpenAI
C16_Witness ==
    /\ last.op = "revise" /\ last.code = 400
    /\ last.error = "Only completed generations can be updated!"
    /\ Exists(last.id)
    /\ last.actor = gens[last.id].email
    /\ creates[last.id].pc = "openai"

\* C17: a delete request of the owner is never refused, whatever the
\* status of the generation (none yet, completed, failed) and whether or
\* not it is published, and its answer comes with the record removed.
C17_OwnerDeletesAlways ==
    [][\A id \in Ids :
          (/\ Exists(id)
           /\ last'.op = "delete" /\ last'.id = id
           /\ last'.actor = gens[id].email)
          => /\ last'.code = 200
             /\ gens'[id] = NoGen]_vars

\* the owner deleted a generation whose create still waits on OpenAI
C17_Witness ==
    /\ last.op = "delete" /\ last.code = 200
    /\ last.actor \in Creators
    /\ Deleted(last.id)
    /\ creates[last.id].pc = "openai"

\* C18: a create with a missing or empty issueKey is answered 400 and
\* changes nothing: no generation, no project, no call of the registry, of
\* JIRA or of OpenAI; so no record is ever stored under an empty issueKey.
C18_MissingKeyChangesNothing ==
    [][/\ (last'.op = "create" /\ last'.code = 400) =>
              /\ last'.error = "issueKey is required"
              /\ UNCHANGED <<gens, projects, nextId, creates, registry, reqs>>
              /\ api' = <<>>
       /\ \A id \in Ids :
              /\ gens'[id] # NoGen => gens'[id].issueKey # Empty
              /\ creates'[id].pc \in InFlight => creates'[id].issueKey # Empty]_vars

\* a create without issueKey was refused after a generation and its project
\* had been stored
C18_Witness ==
    /\ last.op = "create" /\ last.code = 400
    /\ Exists(1)
    /\ \E k \in ProjectKeys : projects[k] # NoProject

\* C19: when the call of the project registry fails during a create, the
\* failure is swallowed: the handler of that create stays where it was and
\* goes on to its external call, and its record is stored without a project.
C19_RegistryFailureSwallowed ==
    [][\A id \in Ids :
          (/\ registry[id].pc \in {"find", "save"}
           /\ registry'[id] = Done
           /\ last' # Settled(id, Undefined))
          => /\ creates'[id] = creates[id]
             /\ gens'[id] # NoGen => gens'[id].project = None]_vars

\* C20: right after a create for an issue key with prefix P has stored its
\* record and refreshed the count, with project P stored by the registry,
\* P's totalGenerations is the number of generations that reference P, the
\* one just created among them.
References(gen, projectKey) == gen # NoGen /\ gen.project = Some(projectKey)

C20_CountIsExact ==
    [][\A id \in Ids :
          (creates[id].pc = "stats" /\ creates'[id].pc # "stats") =>
              LET P == ExtractProjectKey(JsString(creates[id].issueKey)).val
              IN projects'[P] # NoProject =>
                    /\ projects'[P].totalGenerations =
                           Cardinality({i \in Ids : References(gens'[i], P)})
                    /\ References(gens'[id], P)]_vars

C22_LoserGetsExisting ==
    [][\A id \in Ids :
        (/\ registry[id].pc = "save"
         /\ ~registry[id].found
         /\ projects[registry[id].projectKey] # NoProject
         /\ registry'[id] # registry[id]) =>
            /\ last' = Settled(id, Undefined)
            /\ projects'[registry[id].projectKey] # NoProject]_vars

(***************************************************************************)
(* C23: a generation that its owner deleted while its POST /testcases      *)
(* handler was still waiting on JIRA or OpenAI is not stored again by any   *)
(* step, the handler's closing save included, and a view of its id is      *)
(* answered "not found".                                                   *)
(***************************************************************************)
C23_NotResurrected ==
    [][\A id \in Ids :
        (Deleted(id) /\ creates[id].pc \in InFlight) =>
            /\ gens'[id] = NoGen
            /\ (last'.op = "view" /\ last'.id = id) =>
                   last' = AbsentResponse("view", last'.actor, id)]_vars

\* the handler of a generation deleted meanwhile came to its closing save
C23_Witness ==
    \E id \in Ids :
        /\ Deleted(id)
        /\ creates[id] = Done
        /\ last.op = "create" /\ last.id = id
        /\ last.code = 500 /\ last.error = "DocumentNotFoundError"

(***************************************************************************)
(* C24: the record of a generation whose POST /testcases handler is at work *)
(* has the mode its request asked for: auto when autoMode was true, manual  *)
(* otherwise.                                                              *)
(***************************************************************************)
C24_ModeAsRequested ==
    \A id \in Ids :
        (Exists(id) /\ creates[id].pc \in InFlight) =>
            gens[id].mode = IF creates[id].autoMode THEN "auto" ELSE "manual"

(***************************************************************************)
(* C25: a PUT /:id/content with content that differs from the current       *)
(* content, taken up when versions already holds an entry numbered          *)
(* currentVersion, prepares no further entry for versions, and prepares    *)
(* currentVersion + 1 and the new content.                                 *)
(***************************************************************************)
C25_NoSecondArchive ==
    [][\A r \in BagToSet(reqs') :
        (/\ r.op = "revise"
         /\ CopiesIn(r, reqs') > CopiesIn(r, reqs)
         /\ Exists(r.id)
         /\ gens[r.id].currentVersion \in VersionNumbers(gens[r.id])
         /\ r.content # Content(gens[r.id])) =>
            /\ r.delta.push = <<>>
            /\ r.delta.set.currentVersion = gens[r.id].currentVersion + 1
            /\ r.delta.set.markdown[1].content = r.content]_vars

(***************************************************************************)
(* C26: POST /prelight and POST /testcases answer a failure of the issue    *)
(* fetch with the status of its reason: 403 when JIRA refused the          *)
(* credentials (401) or the access (403), 404 when the issue was not       *)
(* found, 500 for a network failure or any other error.                    *)
(***************************************************************************)
StatusOfReason(http) ==
    CASE http \in {"401", "403"} -> 403
      [] http = "404" -> 404
      [] OTHER -> 500

C26_FetchFailureStatus ==
    [][\A http \in JiraOutcomes \ {"200"} :
        (/\ last'.op \in {"prelight", "create"}
         /\ last'.error = GetIssue(Empty, http).error) =>
            last'.code = StatusOfReason(http)]_vars

(***************************************************************************)
(* C27: versions is append-only.  Whatever step is taken on a generation    *)
(* that stays stored, the entries versions held are still there, unchanged *)
(* and at the same places, and what is new comes after them; with the      *)
(* requests one at a time the entries stand in the order of their dates.   *)
(***************************************************************************)
C27_VersionsAppendOnly ==
    [][\A id \in Ids :
        (Exists(id) /\ gens'[id] # NoGen) =>
            LET old == gens[id].versions
                new == gens'[id].versions
            IN /\ Len(new) >= Len(old)
               /\ SubSeq(new, 1, Len(old)) = old
               /\ \A i, j \in DOMAIN new :
                     i < j => new[i].releaseDate <= new[j].releaseDate]_vars

\* a publish of a generation that was revised twice, at different times
C27_Witness ==
    /\ last.op = "publish" /\ last.code = 200
    /\ Exists(last.id)
    /\ Len(gens[last.id].versions) = 2
    /\ gens[last.id].versions[1].releaseDate < gens[last.id].versions[2].releaseDate
    /\ gens[last.id].published

(***************************************************************************)
(* C28: completedAt is absent as long as the generation has no status yet   *)
(* (its POST /testcases handler is still at work), is set to the time of   *)
(* the step that gives the generation its status, completed or failed, and *)
(* once set is never changed by a later step, a revision or a publish      *)
(* included.                                                               *)
(***************************************************************************)
C28_CompletedAtSetOnce ==
    [][\A id \in Ids :
        /\ gens'[id] # NoGen =>
              (gens'[id].completedAt = None) = (gens'[id].status = Undefined)
        /\ (Exists(id) /\ gens'[id] # NoGen) =>
              /\ (gens[id].status = Undefined /\ gens'[id].status # Undefined) =>
                    gens'[id].completedAt = Some(now)
              /\ gens[id].completedAt # None =>
                    gens'[id].completedAt = gens[id].completedAt]_vars

\* a generation completed earlier was revised and is now published
C28_Witness ==
    /\ last.op = "publish" /\ last.code = 200
    /\ Exists(last.id)
    /\ gens[last.id].completedAt = Some(0)
    /\ gens[last.id].publishedAt = Some(1)
    /\ Len(gens[last.id].versions) >= 1

(***************************************************************************)
(* C29: in every reachable state a stored generation has a result (content *)
(* and filename) only if its status is completed and an error cause only   *)
(* if its status is failed; a generation without status has neither.       *)
(***************************************************************************)
C29_ResultAndErrorFollowStatus ==
    \A id \in Ids :
        Exists(id) =>
            /\ gens[id].markdown # None => gens[id].status = "completed"
            /\ gens[id].error # Undefined => gens[id].status = "failed"
            /\ gens[id].status = Undefined =>
                  (gens[id].markdown = None /\ gens[id].error = Undefined)

\* a completed generation with its result next to a failed one with its
\* error cause
C29_Witness ==
    \E i, j \in Ids :
        /\ Exists(i) /\ gens[i].status = "completed" /\ gens[i].markdown # None
        /\ gens[i].error = Undefined
        /\ Exists(j) /\ gens[j].status = "failed" /\ gens[j].error # Undefined
        /\ gens[j].markdown = None

(***************************************************************************)
(* C30: PUT /:id/content with content that is empty or white space only is *)
(* refused with 400 "Content is required!" whoever asks and whatever the   *)
(* generation (stored or not, of any status, owned or not); no such        *)
(* request comes to a save, and the refusal leaves every record, so        *)
(* result.content, versions and currentVersion, as it was.                 *)
(***************************************************************************)
IsBlank(content) == \A i \in DOMAIN content : content[i] \in {" ", "\t", "\n"}

C30_BlankContentRefused ==
    [][/\ last'.op = "revise" =>
            \A content \in ReviseInputs :
                IsBlank(content) =>
                    ReviseContentCheck(gens[last'.id], last'.actor, last'.id, content)
                        = Response("revise", last'.actor, last'.id, 400,
                                   "Content is required!", None)
       /\ \A r \in BagToSet(reqs') : r.op = "revise" => ~IsBlank(r.content)
       /\ (last'.op = "revise" /\ last'.error = "Content is required!") =>
             /\ last'.code = 400
             /\ UNCHANGED <<gens, reqs>>]_vars

\* the owner of a completed generation was refused
C30_Witness ==
    /\ last.op = "revise" /\ last.code = 400
    /\ last.error = "Content is required!"
    /\ Exists(last.id)
    /\ gens[last.id].email = last.actor
    /\ gens[last.id].status = "completed"

(***************************************************************************)
(* C31: the record POST /testcases stores has the issue key of the request  *)
(* and the requesting user as its owner, and no later step on a stored     *)
(* generation (completion, failure, a revision or a publish by any user)   *)
(* changes its issueKey, its owner or its mode.                            *)
(***************************************************************************)
C31_CreationFieldsKept ==
    [][\A id \in Ids :
        /\ (~Exists(id) /\ gens'[id] # NoGen) =>
              /\ gens'[id].issueKey = creates'[id].issueKey
              /\ gens'[id].email = creates'[id].actor
        /\ (Exists(id) /\ gens'[id] # NoGen) =>
              /\ gens'[id].issueKey = gens[id].issueKey
              /\ gens'[id].email = gens[id].email
              /\ gens'[id].mode = gens[id].mode]_vars

\* a generation that was completed, published and then revised
C31_Witness ==
    /\ last.op = "revise" /\ last.code = 200
    /\ Exists(last.id)
    /\ gens[last.id].status = "completed"
    /\ gens[last.id].published
    /\ Len(gens[last.id].versions) >= 1
    /\ gens[last.id].issueKey \in IssueKeys
    /\ gens[last.id].email = last.actor

(***************************************************************************)
(* C32: GET / never lists a generation its reader may not view.  With       *)
(* filter mine every listed generation is owned by the reader, with filter *)
(* published every one is published and completed, and with filter all,    *)
(* any other word or no filter every one is owned by the reader or is      *)
(* published and completed.  What is listed is stored.                     *)
(***************************************************************************)
C32_ListedIsViewable ==
    last.op = "list" =>
        \A i \in DOMAIN last.generations :
            LET gen == gens[last.generations[i]] IN
            /\ gen # NoGen
            /\ gen.email = last.actor \/ (gen.published /\ gen.status = "completed")
            /\ last.filter = Mine => gen.email = last.actor
            /\ last.filter = Published =>
                  (gen.published /\ gen.status = "completed")

\* the other user listed without a filter and got the owner's published
\* generation, while another generation of the owner is stored unpublished
C32_Witness ==
    /\ last.op = "list" /\ last.filter = All
    /\ last.actor \notin Creators
    /\ last.generations # <<>>
    /\ \E id \in Ids : Exists(id) /\ ~gens[id].published

(***************************************************************************)
(* C33: in every reachable state a stored generation with published = true *)
(* has status completed; none that is failed or still without status is    *)
(* published.                                                              *)
(***************************************************************************)
C33_PublishedIsCompleted ==
    \A id \in Ids :
        (Exists(id) /\ gens[id].published) => gens[id].status = "completed"

\* the owner's publish of a failed generation was refused while another
\* generation of theirs is published
C33_Witness ==
    /\ last.op = "publish" /\ last.code = 400
    /\ Exists(last.id)
    /\ gens[last.id].status = "failed"
    /\ gens[last.id].email = last.actor
    /\ \E id \in Ids : Exists(id) /\ gens[id].published

(***************************************************************************)
(* C34: the save of a PUT /:id/publish writes the publish fields it         *)
(* prepared and leaves result.content, versions and currentVersion as      *)
(* stored; the save of a PUT /:id/content stores its content and leaves    *)
(* published, publishedAt and publishedBy as stored.  This holds when one  *)
(* of them runs between the read and the save of the other, so neither     *)
(* request's update is lost to the other.                                  *)
(***************************************************************************)
C34_PublishAndReviseKeepApart ==
    [][\A r \in BagToSet(reqs) :
        (reqs' = reqs (-) SetToBag({r}) /\ Exists(r.id)) =>
            LET old == gens[r.id]
                new == gens'[r.id]
            IN /\ r.op = "publish" =>
                    /\ new.markdown = old.markdown
                    /\ new.versions = old.versions
                    /\ new.currentVersion = old.currentVersion
                    /\ \A f \in DOMAIN r.delta.set : new[f] = r.delta.set[f]
               /\ r.op = "revise" =>
                    /\ new.published = old.published
                    /\ new.publishedAt = old.publishedAt
                    /\ new.publishedBy = old.publishedBy
                    /\ Content(new) = r.content]_vars

\* a revision was saved while a publish that had read the generation before
\* it still waits to save
C34_Witness ==
    /\ last.op = "revise" /\ last.code = 200
    /\ Exists(last.id)
    /\ Len(gens[last.id].versions) >= 1
    /\ ~gens[last.id].published
    /\ \E r \in BagToSet(reqs) :
          r.op = "publish" /\ r.id = last.id /\ r.delta # NoDelta
====
